---- MODULE Spec2Model ----
(***************************************************************************)
(* Model of playground/main.c: a program that prints a fixed banner,      *)
(* echoes its command-line arguments with their 1-based index (or reports *)
(* that there are none), prints a completion message and returns 0.       *)
(*                                                                         *)
(* A C string is a sequence of characters, a character a one-character    *)
(* TLA+ string.  Standard output is the sequence of the texts written by  *)
(* the successive printf calls; Stdout is its byte stream and Lines the    *)
(* lines a reader of that stream sees.                                     *)
(***************************************************************************)
EXTENDS Integers, Sequences, FiniteSets, TLC

(* ------------------------------ bounds -------------------------------- *)

\* Largest number of arguments after the program name (10 gives a two-digit index).
MaxArgs == 10

\* Argument lists of up to MaxRich arguments take every combination of ArgValues.
MaxRich == 2

\* Number of times the program is started with the same argument vector.
MaxRuns == 2

(* ----------------------- string literals of main ---------------------- *)

\* main.c:5, the format string of the first printf.
Banner1 ==
    <<"=", "=", "=", " ", "P", "l", "a", "y", "g", "r", "o", "u", "n", "d",
      " ", "T", "e", "s", "t", " ", "A", "r", "e", "a", " ", "f", "o", "r",
      " ", "O", "r", "c", "a", " ", "=", "=", "=", "\n">>

\* main.c:6.
Banner2 ==
    <<"H", "e", "l", "l", "o", " ", "f", "r", "o", "m", " ", "p", "l", "a",
      "y", "g", "r", "o", "u", "n", "d", "!", "\n">>

\* main.c:7: the third banner line and the blank line after it.
Banner3 ==
    <<"T", "h", "i", "s", " ", "i", "s", " ", "a", " ", "t", "e", "s", "t",
      " ", "e", "n", "v", "i", "r", "o", "n", "m", "e", "n", "t", " ", "f",
      "o", "r", " ", "o", "r", "c", "a", " ", "i", "n", "t", "e", "g", "r",
      "a", "t", "i", "o", "n", ".", "\n", "\n">>

\* main.c:10.
ArgsHeader ==
    <<"A", "r", "g", "u", "m", "e", "n", "t", "s", " ", "r", "e", "c", "e",
      "i", "v", "e", "d", ":", "\n">>

\* main.c:15.
NoArgsMsg ==
    <<"N", "o", " ", "a", "r", "g", "u", "m", "e", "n", "t", "s", " ", "p",
      "r", "o", "v", "i", "d", "e", "d", ".", "\n">>

\* main.c:18: a blank line, then the closing line.
Closing ==
    <<"\n", "P", "l", "a", "y", "g", "r", "o", "u", "n", "d", " ", "t",
      "e", "s", "t", " ", "c", "o", "m", "p", "l", "e", "t", "e", "d", " ",
      "s", "u", "c", "c", "e", "s", "s", "f", "u", "l", "l", "y", ".", "\n">>

(* ---------------------------- the inputs ------------------------------ *)

\* argv[0] as the shell passes it.
ProgName ==
    <<".", "/", "m", "a", "i", "n">>

ArgFoo ==
    <<"f", "o", "o">>

ArgBar ==
    <<"b", "a", "r">>

ArgSpace ==
    <<"a", " ", "b">>

ArgFlag ==
    <<"-", "h">>

ArgFixed ==
    <<"N", "o", " ", "a", "r", "g", "u", "m", "e", "n", "t", "s", " ", "p",
      "r", "o", "v", "i", "d", "e", "d", ".">>

ArgNewline ==
    <<"x", "\n", "y">>

\* The values an argument takes: empty, plain, with whitespace, flag-like,
\* equal to a fixed line of the program, and with an embedded newline.
ArgValues == {<<>>, ArgFoo, ArgSpace, ArgFlag, ArgFixed, ArgNewline}

\* The values of the environment variables of a run (never consulted by main).
EnvValues == {"C", "en_US.UTF-8"}

\* The argument lists (without the program name) the model starts from:
\* every list of up to MaxRich values, and the longer lists up to MaxArgs
\* whose first argument is any value and whose other arguments are ArgBar.
ArgLists ==
    (UNION {[1..n -> ArgValues] : n \in 0..MaxRich})
    \cup { [k \in 1..n |-> IF k = 1 THEN v ELSE ArgBar] :
              v \in ArgValues, n \in (MaxRich + 1)..MaxArgs }

\* The argument vector of a start with the arguments a: argv[0] is the
\* program name, argv[k] the k-th argument.
ArgVector(a) == [k \in 0..Len(a) |-> IF k = 0 THEN ProgName ELSE a[k]]

\* An execve with an empty argument vector: argc = 0, no slot to read.
EmptyVector == [k \in {} |-> <<>>]

(* ------------------------------ the state ----------------------------- *)

VARIABLES
    argc,       \* main's first parameter
    argv,       \* main's second parameter: a function on 0..argc-1
    env,        \* the environment of the running process
    pc,         \* the statement main is at ("exit" once it has returned)
    i,          \* the loop variable of line 11 (0 while not in scope)
    out,        \* standard output: the texts written by the printf calls so far
    reads,      \* the indices of the argv slots read so far, in order
    exitCode,   \* the value main returned (-1 while it is running)
    runs,       \* the number of starts so far, this one included
    prevOut,    \* standard output of the previous run (<<>> before the first)
    prevExit    \* exit code of the previous run (-1 before the first)

vars == <<argc, argv, env, pc, i, out, reads, exitCode, runs, prevOut, prevExit>>

(* ------------------------- printf and stdout -------------------------- *)

\* The decimal digits of n >= 0, as %d writes them.
DigitChars == <<"0", "1", "2", "3", "4", "5", "6", "7", "8", "9">>

RECURSIVE Digits(_)
Digits(n) ==
    IF n < 10 THEN <<DigitChars[n + 1]>>
    ELSE Digits(n \div 10) \o <<DigitChars[(n % 10) + 1]>>

\* printf's %d conversion of an int.
FormatInt(n) == IF n < 0 THEN <<"-">> \o Digits(0 - n) ELSE Digits(n)

\* FormatArg printing the 0-based position instead of the index.
FormatArgZeroBased(idx, s) ==
    <<" ", " ", "[">> \o FormatInt(idx - 1) \o <<"]", ":", " ">> \o s \o <<"\n">>

\* The text printf("  [%d]: %s\n", idx, s) writes (main.c:12).
FormatArg(idx, s) ==
    <<" ", " ", "[">> \o FormatInt(idx) \o <<"]", ":", " ">> \o s \o <<"\n">>

\* printf appends the formatted text to standard output.
Printf(o, text) == Append(o, text)

\* The byte stream of a standard output: its writes, concatenated.
RECURSIVE Stdout(_)
Stdout(o) == IF o = <<>> THEN <<>> ELSE Head(o) \o Stdout(Tail(o))

\* The positions of the newline characters of a byte stream.
NewlineAt(bytes) == {k \in 1..Len(bytes) : bytes[k] = "\n"}

\* The largest element of a set of positions, 0 if it is empty.
LastOf(S) == IF S = {} THEN 0 ELSE CHOOSE k \in S : \A m \in S : m <= k

\* The lines of a byte stream: the text before each newline, from the end of
\* the line before it, then what follows the last newline if it is not empty.
Lines(bytes) ==
    LET nl == NewlineAt(bytes)
        ended == [j \in 1..Cardinality(nl) |->
                    LET e == CHOOSE k \in nl : Cardinality({m \in nl : m < k}) = j - 1
                    IN SubSeq(bytes, LastOf({m \in nl : m < e}) + 1, e - 1)]
        rest == SubSeq(bytes, LastOf(nl) + 1, Len(bytes))
    IN ended \o (IF rest = <<>> THEN <<>> ELSE <<rest>>)

(* ----------------------------- the program ---------------------------- *)

Init ==
    /\ \E a \in ArgLists :
          \/ argc = Len(a) + 1 /\ argv = ArgVector(a)
          \/ a = <<>> /\ argc = 0 /\ argv = EmptyVector
    /\ env \in EnvValues
    /\ pc = "L5"
    /\ i = 0
    /\ out = <<>>
    /\ reads = <<>>
    /\ exitCode = -1
    /\ runs = 1
    /\ prevOut = <<>>
    /\ prevExit = -1

\* main.c:5  printf("=== Playground Test Area for Orca ===\n");
Line5 ==
    /\ pc = "L5"
    /\ out' = Printf(out, Banner1)
    /\ pc' = "L6"
    /\ UNCHANGED <<argc, argv, env, i, reads, exitCode, runs, prevOut, prevExit>>

\* Line6 with the greeting followed by a value of the environment.
Line6Env ==
    /\ pc = "L6"
    /\ out' = Printf(out, SubSeq(Banner2, 1, Len(Banner2) - 1) \o <<" ", env, "\n">>)
    /\ pc' = "L7"
    /\ UNCHANGED <<argc, argv, env, i, reads, exitCode, runs, prevOut, prevExit>>

\* main.c:6  printf("Hello from playground!\n");
Line6 ==
    /\ pc = "L6"
    /\ out' = Printf(out, Banner2)
    /\ pc' = "L7"
    /\ UNCHANGED <<argc, argv, env, i, reads, exitCode, runs, prevOut, prevExit>>

\* main.c:7  printf("This is a test environment for orca integration.\n\n");
Line7 ==
    /\ pc = "L7"
    /\ out' = Printf(out, Banner3)
    /\ pc' = "L9"
    /\ UNCHANGED <<argc, argv, env, i, reads, exitCode, runs, prevOut, prevExit>>

\* Line9 testing argc > 0: the program name counted as an argument.
Line9OffByOne ==
    /\ pc = "L9"
    /\ pc' = IF argc > 0 THEN "L10" ELSE "L15"
    /\ UNCHANGED <<argc, argv, env, i, out, reads, exitCode, runs, prevOut, prevExit>>

\* main.c:9  if (argc > 1) ... else ...
Line9 ==
    /\ pc = "L9"
    /\ pc' = IF argc > 1 THEN "L10" ELSE "L15"
    /\ UNCHANGED <<argc, argv, env, i, out, reads, exitCode, runs, prevOut, prevExit>>

\* main.c:10  printf("Arguments received:\n");
Line10 ==
    /\ pc = "L10"
    /\ out' = Printf(out, ArgsHeader)
    /\ pc' = "L11init"
    /\ UNCHANGED <<argc, argv, env, i, reads, exitCode, runs, prevOut, prevExit>>

\* ForInit starting the loop at the program name.
ForInitZero ==
    /\ pc = "L11init"
    /\ i' = 0
    /\ pc' = "L11cond"
    /\ UNCHANGED <<argc, argv, env, out, reads, exitCode, runs, prevOut, prevExit>>

\* main.c:11  for (int i = 1; ...
ForInit ==
    /\ pc = "L11init"
    /\ i' = 1
    /\ pc' = "L11cond"
    /\ UNCHANGED <<argc, argv, env, out, reads, exitCode, runs, prevOut, prevExit>>

\* ForCond with the else branch not skipped once the loop is over.
ForCondFallthrough ==
    /\ pc = "L11cond"
    /\ pc' = IF i < argc THEN "L12" ELSE "L15"
    /\ UNCHANGED <<argc, argv, env, i, out, reads, exitCode, runs, prevOut, prevExit>>

\* main.c:11  ... i < argc; ...
ForCond ==
    /\ pc = "L11cond"
    /\ pc' = IF i < argc THEN "L12" ELSE "L18"
    /\ UNCHANGED <<argc, argv, env, i, out, reads, exitCode, runs, prevOut, prevExit>>

\* Line12 consuming the argument it has printed (the slot is emptied).
Line12Consume ==
    /\ pc = "L12"
    /\ reads' = Append(reads, i)
    /\ out' = Printf(out, FormatArg(i, argv[i]))
    /\ argv' = [argv EXCEPT ![i] = <<>>]
    /\ pc' = "L11incr"
    /\ UNCHANGED <<argc, env, i, exitCode, runs, prevOut, prevExit>>

\* Line12 skipping an argument that is the empty string.
Line12SkipEmpty ==
    /\ pc = "L12"
    /\ reads' = Append(reads, i)
    /\ out' = IF argv[i] = <<>> THEN out ELSE Printf(out, FormatArg(i, argv[i]))
    /\ pc' = "L11incr"
    /\ UNCHANGED <<argc, argv, env, i, exitCode, runs, prevOut, prevExit>>

\* main.c:12  printf("  [%d]: %s\n", i, argv[i]);
Line12 ==
    /\ pc = "L12"
    /\ reads' = Append(reads, i)
    /\ out' = Printf(out, FormatArg(i, argv[i]))
    /\ pc' = "L11incr"
    /\ UNCHANGED <<argc, argv, env, i, exitCode, runs, prevOut, prevExit>>

\* ForIncr without the increment.
ForIncrStuck ==
    /\ pc = "L11incr"
    /\ i' = i
    /\ pc' = "L11cond"
    /\ UNCHANGED <<argc, argv, env, out, reads, exitCode, runs, prevOut, prevExit>>

\* main.c:11  ... i++)
ForIncr ==
    /\ pc = "L11incr"
    /\ i' = i + 1
    /\ pc' = "L11cond"
    /\ UNCHANGED <<argc, argv, env, out, reads, exitCode, runs, prevOut, prevExit>>

\* main.c:15  printf("No arguments provided.\n");
Line15 ==
    /\ pc = "L15"
    /\ out' = Printf(out, NoArgsMsg)
    /\ pc' = "L18"
    /\ UNCHANGED <<argc, argv, env, i, reads, exitCode, runs, prevOut, prevExit>>

\* Line18 without the blank line before the closing line.
Line18NoBlank ==
    /\ pc = "L18"
    /\ out' = Printf(out, Tail(Closing))
    /\ pc' = "L19"
    /\ UNCHANGED <<argc, argv, env, i, reads, exitCode, runs, prevOut, prevExit>>

\* main.c:18  printf("\nPlayground test completed successfully.\n");
Line18 ==
    /\ pc = "L18"
    /\ out' = Printf(out, Closing)
    /\ pc' = "L19"
    /\ UNCHANGED <<argc, argv, env, i, reads, exitCode, runs, prevOut, prevExit>>

\* Line19 returning a failure status when arguments were given.
Line19Failure ==
    /\ pc = "L19"
    /\ exitCode' = IF argc > 1 THEN 1 ELSE 0
    /\ pc' = "exit"
    /\ UNCHANGED <<argc, argv, env, i, out, reads, runs, prevOut, prevExit>>

\* main.c:19  return 0;
Line19 ==
    /\ pc = "L19"
    /\ exitCode' = 0
    /\ pc' = "exit"
    /\ UNCHANGED <<argc, argv, env, i, out, reads, runs, prevOut, prevExit>>

\* One step of main.
main ==
    \/ Line5 \/ Line6 \/ Line7 \/ Line9 \/ Line10
    \/ ForInit \/ ForCond \/ Line12 \/ ForIncr
    \/ Line15 \/ Line18 \/ Line19

\* The program is started again with the same argument vector, in an
\* environment of its own: a new process, whose main starts at line 5 with
\* an empty standard output.  The finished run's output and exit code are kept.
Rerun ==
    /\ pc = "exit"
    /\ runs < MaxRuns
    /\ prevOut' = out
    /\ prevExit' = exitCode
    /\ runs' = runs + 1
    /\ env' \in EnvValues
    /\ pc' = "L5"
    /\ i' = 0
    /\ out' = <<>>
    /\ reads' = <<>>
    /\ exitCode' = -1
    /\ UNCHANGED <<argc, argv>>

Next == main \/ Rerun

Spec == Init /\ [][Next]_vars

\* A started process is scheduled until main returns.
FairSpec == Spec /\ WF_vars(main)

(* ------------------- the texts the specification names ---------------- *)

\* The first banner line, as the specification words it.
SpecBanner1 ==
    <<"=", "=", "=", " ", "P", "l", "a", "y", "g", "r", "o", "u", "n", "d",
      " ", "T", "e", "s", "t", " ", "A", "r", "e", "a", " ", "f", "o", "r",
      " ", "O", "r", "c", "a", " ", "=", "=", "=">>

\* The second banner line, as the specification words it.
SpecBanner2 ==
    <<"H", "e", "l", "l", "o", " ", "f", "r", "o", "m", " ", "p", "l", "a",
      "y", "g", "r", "o", "u", "n", "d", "!">>

\* The third banner line, as the specification words it.
SpecBanner3 ==
    <<"T", "h", "i", "s", " ", "i", "s", " ", "a", " ", "t", "e", "s", "t",
      " ", "e", "n", "v", "i", "r", "o", "n", "m", "e", "n", "t", " ", "f",
      "o", "r", " ", "o", "r", "c", "a", " ", "i", "n", "t", "e", "g", "r",
      "a", "t", "i", "o", "n", ".">>

\* The header of the argument listing, as the specification words it.
SpecArgsHeader ==
    <<"A", "r", "g", "u", "m", "e", "n", "t", "s", " ", "r", "e", "c", "e",
      "i", "v", "e", "d", ":">>

\* The line written when there is no argument, as the specification words it.
SpecNoArgs ==
    <<"N", "o", " ", "a", "r", "g", "u", "m", "e", "n", "t", "s", " ", "p",
      "r", "o", "v", "i", "d", "e", "d", ".">>

\* The closing line, as the specification words it.
SpecClosing ==
    <<"P", "l", "a", "y", "g", "r", "o", "u", "n", "d", " ", "t", "e", "s",
      "t", " ", "c", "o", "m", "p", "l", "e", "t", "e", "d", " ", "s", "u",
      "c", "c", "e", "s", "s", "f", "u", "l", "l", "y", ".">>

(* --------------------------- shared vocabulary ------------------------ *)

\* main has returned.
Exited == pc = "exit"

\* The number of arguments after the program name.
NArgs == IF argc > 1 THEN argc - 1 ELSE 0

\* The text of a line followed by its newline.
Ln(text) == text \o <<"\n">>

\* The line `  [<idx>]: <value>` of the specification, without its newline.
SpecEntry(idx, value) ==
    <<" ", " ", "[">> \o FormatInt(idx) \o <<"]", ":", " ">> \o value

\* The entries of the arguments 1..n, each followed by a newline, concatenated.
RECURSIVE SpecEntries(_)
SpecEntries(n) ==
    IF n = 0 THEN <<>> ELSE SpecEntries(n - 1) \o Ln(SpecEntry(n, argv[n]))

\* The four lines every output starts with, and the two it ends with.
SpecBannerLines == <<SpecBanner1, SpecBanner2, SpecBanner3, <<>>>>
SpecClosingLines == <<<<>>, SpecClosing>>

\* pat occurs in bytes.
Contains(bytes, pat) ==
    \E k \in 1..(Len(bytes) - Len(pat) + 1) :
        SubSeq(bytes, k, k + Len(pat) - 1) = pat

HasNewline(s) == \E k \in 1..Len(s) : s[k] = "\n"

\* No argument of this run holds a newline character.
NoNewlineInArgs == \A k \in 1..NArgs : ~HasNewline(argv[k])

\* The number of writes of standard output o whose text is t.
CountWrites(o, t) == Cardinality({k \in 1..Len(o) : o[k] = t})

(* -------------------------------- C1 ---------------------------------- *)

\* C1 as stated: with N >= 1 arguments the output holds the line
\* `Arguments received:` immediately followed by exactly N lines, the i-th
\* being `  [<i>]: <argv[i]>`, and nothing but the blank line and the closing
\* line after them.
C1_LinesAsStated ==
    (Exited /\ argc > 1) =>
        LET ls == Lines(Stdout(out))
        IN \E h \in 1..Len(ls) :
              /\ ls[h] = SpecArgsHeader
              /\ Len(ls) = h + NArgs + 2
              /\ \A k \in 1..NArgs : ls[h + k] = SpecEntry(k, argv[k])
              /\ SubSeq(ls, h + NArgs + 1, Len(ls)) = SpecClosingLines

\* C1, amended: with N >= 1 arguments the output is the banner, then
\* `Arguments received:` and a newline, immediately followed by exactly N
\* entries `  [<i>]: <argv[i]>` each ended by a newline, for i = 1..N in
\* increasing order and byte for byte, then the closing text; these entries
\* are exactly N lines whenever no argument holds a newline character.
C1_EntriesInOrder ==
    (Exited /\ argc > 1) =>
        /\ Stdout(out) =
              Ln(SpecBanner1) \o Ln(SpecBanner2) \o Ln(SpecBanner3) \o Ln(<<>>)
              \o Ln(SpecArgsHeader) \o SpecEntries(NArgs)
              \o Ln(<<>>) \o Ln(SpecClosing)
        /\ NoNewlineInArgs =>
              Lines(Stdout(out)) =
                  SpecBannerLines \o <<SpecArgsHeader>>
                  \o [k \in 1..NArgs |-> SpecEntry(k, argv[k])]
                  \o SpecClosingLines

\* A run with ten or more arguments, the first holding a newline, has ended.
C1_Witness ==
    Exited /\ argc > 10 /\ argv[1] = ArgNewline /\ argv[10] = ArgBar

(* -------------------------------- C2 ---------------------------------- *)

\* C2 as stated: with zero arguments the output ends with the line
\* `No arguments provided.` and does not contain `Arguments received:`.
C2_EndsWithNoArgs ==
    (Exited /\ NArgs = 0) =>
        LET ls == Lines(Stdout(out))
        IN /\ ls[Len(ls)] = SpecNoArgs
           /\ ~Contains(Stdout(out), SpecArgsHeader)

\* C2, amended: with zero arguments the output ends with the line
\* `No arguments provided.` followed by a blank line and the closing line
\* `Playground test completed successfully.`, and it does not contain
\* `Arguments received:`.
C2_NoArgsBeforeClosing ==
    (Exited /\ NArgs = 0) =>
        LET ls == Lines(Stdout(out))
        IN /\ Len(ls) >= 3
           /\ SubSeq(ls, Len(ls) - 2, Len(ls)) = <<SpecNoArgs>> \o SpecClosingLines
           /\ ~Contains(Stdout(out), SpecArgsHeader)

\* A run started with the program name alone has ended.
C2_Witness == Exited /\ argc = 1 /\ Len(out) > 0

(* -------------------------------- C3 ---------------------------------- *)

\* The statements of the argument section (main.c:9-16).
InArgSection == pc \in {"L9", "L10", "L11init", "L11cond", "L12", "L11incr", "L15"}

\* C3: every output begins with the three banner lines and a blank line and
\* ends with a blank line and the closing line, whatever the argument count;
\* the argument section is written after the whole banner and before the
\* closing text, which is the last text written.
C3_BannerAndClosing ==
    /\ Exited =>
          LET ls == Lines(Stdout(out))
          IN /\ Len(ls) >= 7
             /\ SubSeq(ls, 1, 4) = SpecBannerLines
             /\ SubSeq(ls, Len(ls) - 1, Len(ls)) = SpecClosingLines
    /\ \A k \in 1..Len(out) :
          /\ k <= 3 => out[k] = Ln(<<SpecBanner1, SpecBanner2, Ln(SpecBanner3)>>[k])
          /\ out[k] = <<"\n">> \o Ln(SpecClosing) =>
                k = Len(out) /\ k > 4 /\ pc \in {"L19", "exit"}
    /\ InArgSection =>
          /\ Len(out) >= 3
          /\ CountWrites(out, <<"\n">> \o Ln(SpecClosing)) = 0
    /\ pc \in {"L19", "exit"} => out[Len(out)] = <<"\n">> \o Ln(SpecClosing)

\* A run with three arguments has ended.
C3_Witness == Exited /\ argc = 4 /\ argv[1] = ArgFoo /\ argv[3] = ArgBar

(* -------------------------------- C4 ---------------------------------- *)

\* C4: main ends with exit code 0 for every argument count and content, no
\* other status is ever produced, and the exit happens only after the
\* closing line has been written.
C4_ExitZero ==
    /\ exitCode \in {-1, 0}
    /\ Exited <=> exitCode = 0
    /\ Exited =>
          /\ Len(out) > 0
          /\ out[Len(out)] = <<"\n">> \o Ln(SpecClosing)

\* A run with an empty argument and one with whitespace has exited.
C4_Witness ==
    Exited /\ argc = 3 /\ argv[1] = <<>> /\ argv[2] = ArgSpace /\ exitCode = 0

(* -------------------------------- C5 ---------------------------------- *)

\* C5: a run started with the arguments of the previous run ends with the
\* same output and the same exit code, whatever the environment of either.
C5_SameArgsSameOutput ==
    (Exited /\ runs > 1) =>
        /\ out = prevOut
        /\ exitCode = prevExit

\* A second run with two arguments has ended.
C5_Witness == Exited /\ runs > 1 /\ argc > 2 /\ prevOut # <<>>

(* -------------------------------- C6 ---------------------------------- *)

\* C6: no step of the program changes the argument count or an argument.
C6_ArgsNeverModified == [][argc' = argc /\ argv' = argv]_vars

\* A run whose loop has echoed two non-empty arguments has ended.
C6_Witness ==
    Exited /\ argc = 3 /\ argv[1] = ArgFlag /\ argv[2] = ArgFoo /\ Len(reads) = 2

(* -------------------------------- C7 ---------------------------------- *)

\* C7: exactly one of the two section headers is written by the program,
\* once, between the banner and the closing text: `Arguments received:` iff
\* there is at least one argument, `No arguments provided.` iff there is none.
C7_ExactlyOneHeader ==
    LET nHeader == CountWrites(out, Ln(SpecArgsHeader))
        nNoArgs == CountWrites(out, Ln(SpecNoArgs))
    IN /\ nHeader + nNoArgs <= 1
       /\ pc \in {"L18", "L19", "exit"} =>
             /\ nHeader + nNoArgs = 1
             /\ nHeader = 1 <=> NArgs > 0
             /\ nNoArgs = 1 <=> NArgs = 0
             /\ out[4] \in {Ln(SpecArgsHeader), Ln(SpecNoArgs)}
       /\ Exited => Len(out) > 4

\* A run whose first argument is the text of the other header has ended.
C7_Witness == Exited /\ argc > 1 /\ argv[1] = ArgFixed

(* -------------------------------- C8 ---------------------------------- *)

\* C8: the program terminates for every argument list: the loop visits the
\* arguments 1..argc-1 once each and in order (argc - 1 iterations when
\* argc > 1, none otherwise), the loop index grows on every iteration, and
\* every started run reaches the closing line and exits.
C8_LoopTerminates ==
    /\ [](pc \in {"L18", "L19", "exit"} => reads = [k \in 1..NArgs |-> k])
    /\ [](pc \in {"L19", "exit"} =>
            out[Len(out)] = <<"\n">> \o Ln(SpecClosing))
    /\ [][pc = "L11incr" => i' > i]_vars
    /\ [][pc = "L12" => Len(reads') = Len(reads) + 1 /\ reads'[Len(reads')] = i]_vars
    /\ (pc = "L5") ~> Exited

\* A run whose loop went round more than three times has ended.
C8_Witness == Exited /\ argc > 4 /\ Len(reads) = argc - 1 /\ i = argc

(* -------------------------------- C9 ---------------------------------- *)

\* The number of lines of an output if it depended on the argument count alone.
SpecLineCount == 4 + (IF NArgs > 0 THEN 1 + NArgs ELSE 1) + 2

\* The number of writes of a run, a function of the argument count alone.
SpecWriteCount == 3 + (IF NArgs > 0 THEN 1 + NArgs ELSE 1) + 1

\* C9 as stated: the branch taken and the number of lines written depend on
\* the argument count alone; an empty argument is echoed as its own line
\* `  [<i>]: `, and every other argument, whatever its text, is echoed
\* unchanged on its own line without altering any other line.
C9_LineCountByArgc ==
    Exited =>
        LET ls == Lines(Stdout(out))
        IN /\ Len(ls) = SpecLineCount
           /\ ls[5] = (IF NArgs > 0 THEN SpecArgsHeader ELSE SpecNoArgs)
           /\ \A k \in 1..NArgs : ls[5 + k] = SpecEntry(k, argv[k])

\* C9, amended: the branch taken and the number of texts written depend on
\* the argument count alone; the k-th argument appears in its own entry
\* `  [<k>]: <argv[k]>` and in no other text written, so an empty argument is
\* echoed as `  [<k>]: ` and an argument equal to a fixed line or looking
\* like a flag is echoed unchanged; the number of output lines depends on
\* the argument count alone when no argument holds a newline character.
C9_WritesByArgc ==
    /\ pc \in {"L10", "L11init", "L11cond", "L12", "L11incr"} => argc > 1
    /\ pc = "L15" => argc <= 1
    /\ Exited =>
          /\ Len(out) = SpecWriteCount
          /\ out[4] = (IF NArgs > 0 THEN Ln(SpecArgsHeader) ELSE Ln(SpecNoArgs))
          /\ \A k \in 1..NArgs :
                /\ out[4 + k] = Ln(SpecEntry(k, argv[k]))
                /\ argv[k] = <<>> =>
                      out[4 + k] = <<" ", " ", "[">> \o FormatInt(k) \o <<"]", ":", " ", "\n">>
          /\ \A k \in (1..Len(out)) \ (5..(4 + NArgs)) :
                out[k] \in {Ln(SpecBanner1), Ln(SpecBanner2), Ln(Ln(SpecBanner3)),
                            Ln(SpecArgsHeader), Ln(SpecNoArgs),
                            <<"\n">> \o Ln(SpecClosing)}
          /\ NoNewlineInArgs => Len(Lines(Stdout(out))) = SpecLineCount

\* A run given an empty argument and one equal to a fixed line has ended.
C9_Witness == Exited /\ argc = 3 /\ argv[1] = <<>> /\ argv[2] = ArgFixed

(* -------------------------------- C10 --------------------------------- *)

\* C10: only the slots 1..argc-1 of the argument vector are read: never
\* slot 0, never a slot at or after argc; with argc 0 or 1 no slot is read
\* and `No arguments provided.` is what is written.
C10_ReadsInRange ==
    /\ \A k \in 1..Len(reads) : 1 <= reads[k] /\ reads[k] < argc
    /\ argc <= 1 =>
          /\ reads = <<>>
          /\ CountWrites(out, Ln(SpecArgsHeader)) = 0
          /\ pc \in {"L18", "L19", "exit"} => out[4] = Ln(SpecNoArgs)

\* The last slot of a vector with two or more arguments has just been read.
C10_Witness == pc = "L11incr" /\ argc > 2 /\ i = argc - 1 /\ reads[Len(reads)] = i

====
